---- MODULE Spec2Model ----
(***************************************************************************)
(* The event loop of the dora daemon (binaries/daemon/src/lib.rs): the     *)
(* tables of running dataflows, prepared messages and sent-out shared      *)
(* memory, and one action per event handler of Daemon::run_inner.          *)
(***************************************************************************)
EXTENDS Integers, Sequences, FiniteSets, TLC

\* ------------------------------------------------------------------ bounds

\* PrepareOutputMessage events (each mints one fresh prepare handle).
MaxPrepares == 1
\* Capacity of a subscriber's event queue.
ChanCap == 1

\* ------------------------------------------------------------ identifiers

DataflowIds == {"D1", "D2"}
Nodes == {"a", "b", "p"}
\* BTreeMap / BTreeSet iteration order of NodeId and DataId (string order).
NodeOrder == <<"a", "b", "p">>
DataOrder == <<"in", "tick", "x">>
\* the timer period of the one timer input
Interval == 100

NoSeg == 0
NoNode == "-"

\* ---------------------------------------------------------------- helpers

EmptyFn == [k \in {} |-> 0]

Put(f, k, v) == [x \in (DOMAIN f) \cup {k} |-> IF x = k THEN v ELSE f[x]]

\* a removal that leaves the map as it is
KeepKey(f, k) == f

Remove(f, k) == [x \in (DOMAIN f) \ {k} |-> f[x]]

\* a lookup that answers with everything stored, whatever the key
GetAny(f, k) == UNION {f[x] : x \in DOMAIN f}

\* entry(k).or_default(): the set stored under k, empty when absent
GetOrEmpty(f, k) == IF k \in DOMAIN f THEN f[k] ELSE {}

\* the elements of S in the order of the sequence `order`
RECURSIVE SortedBy(_, _)
SortedBy(order, S) ==
    IF order = <<>> THEN <<>>
    ELSE IF Head(order) \in S
         THEN <<Head(order)>> \o SortedBy(Tail(order), S)
         ELSE SortedBy(Tail(order), S)

\* all (NodeId, DataId) pairs in BTreeSet order
InputIdOrder ==
    LET row(n) == [i \in 1..Len(DataOrder) |-> <<n, DataOrder[i]>>]
    IN row(NodeOrder[1]) \o row(NodeOrder[2]) \o row(NodeOrder[3])

\* ------------------------------------------------------------ descriptors

UserInput(source, output, operator) ==
    [kind |-> "User", source |-> source, output |-> output,
     operator |-> operator, interval |-> 0]

TimerInput(interval) ==
    [kind |-> "Timer", source |-> NoNode, output |-> "", operator |-> FALSE,
     interval |-> interval]

\* p sends "x" to a and b; b also has a timer input
DescMain ==
    [n \in {"a", "b", "p"} |->
        IF n = "a" THEN [i \in {"in"} |-> UserInput("p", "x", FALSE)]
        ELSE IF n = "b" THEN [i \in {"in", "tick"} |->
                 IF i = "in" THEN UserInput("p", "x", FALSE)
                 ELSE TimerInput(Interval)]
        ELSE EmptyFn]

\* an input of b names an operator of p: the spawn fails part-way
DescOp ==
    [n \in {"a", "b"} |->
        IF n = "a" THEN [i \in {"tick"} |-> TimerInput(Interval)]
        ELSE [i \in {"in"} |-> UserInput("p", "x", TRUE)]]

Descriptors == <<DescMain, DescOp>>

\* ------------------------------------------------------------------ state

VARIABLES
    status,                 \* "running" | "exited" | "failed" | "stalled"
    prepared_messages,      \* handle -> PreparedMessage
    sent_out_shared_memory, \* DropToken -> segment (an Rc<Shmem> clone)
    running,                \* DataflowId -> RunningDataflow
    exit_when_done,         \* Option<BTreeSet<(DataflowId, NodeId)>>: [is_some, set]
    coordinator_addr,       \* TRUE when a coordinator address is configured
    external,               \* standalone mode: the one-shot commands not yet consumed
    shmem,                  \* segments mapped (allocated and not yet freed)
    rc,                     \* segment -> strong count of its Rc
    next_id,                \* next fresh prepare handle
    next_token,             \* next fresh DropToken
    spawned,                \* <<DataflowId, NodeId>> of processes whose result is pending
    timer_tasks,            \* <<DataflowId, interval>> of timer tasks started so far
    delivered,              \* token -> the Input delivery it was attached to
    dropped,                \* tokens whose Drop removed an entry
    last                    \* the step taken last: its reply and what it sent

vars == <<status, prepared_messages, sent_out_shared_memory, running,
          exit_when_done, coordinator_addr, external, shmem, rc, next_id,
          next_token, spawned, timer_tasks, delivered, dropped, last>>

\* RunningDataflow::default()
DefaultDataflow ==
    [subscribe_channels |-> EmptyFn,
     mappings |-> EmptyFn,
     timers |-> EmptyFn,
     open_inputs |-> EmptyFn,
     running_nodes |-> {},
     timer_handles |-> {}]

\* a fresh subscriber queue: the send half is what subscribe_channels stores
NewChannel == [q |-> <<>>, closed |-> FALSE]

\* reply: what went to the reply channel ("NoReply" when it was dropped unused,
\* "None" when the event has none); error: the error text of an Err reply or of
\* the error that ended the loop; sent: the <<receiver, event>> enqueued;
\* coordinator: the event sent to the coordinator; closed: the receivers a
\* fan-out found closed; effects: what the Stopped handler did, in its order
Handled(kind, reply, error, sent) ==
    [kind |-> kind, reply |-> reply, error |-> error, sent |-> sent,
     coordinator |-> "", closed |-> <<>>, effects |-> <<>>]

\* the standalone runner's spawn command and exit_when_done set
StandaloneCommand(d, k) == [dataflow_id |-> d, desc |-> k]

StandaloneExitSet(d, k) == {<<d, n>> : n \in DOMAIN Descriptors[k]}

\* lib.rs 149-159: the tables of a new daemon
InitTables ==
    /\ status = "running"
    /\ prepared_messages = EmptyFn
    /\ sent_out_shared_memory = EmptyFn
    /\ running = EmptyFn
    /\ shmem = {}
    /\ rc = EmptyFn
    /\ next_id = 1
    /\ next_token = 1
    /\ spawned = {}
    /\ timer_tasks = {}
    /\ delivered = EmptyFn
    /\ dropped = {}
    /\ last = Handled("Init", "None", "", <<>>)

\* lib.rs 58-65: Daemon::run
InitCoordinated ==
    /\ InitTables
    /\ coordinator_addr = TRUE
    /\ exit_when_done = [is_some |-> FALSE, set |-> {}]
    /\ external = <<>>

\* lib.rs 67-128: Daemon::run_dataflow
InitStandalone ==
    /\ InitTables
    /\ coordinator_addr = FALSE
    /\ exit_when_done = [is_some |-> TRUE, set |-> StandaloneExitSet("D1", 1)]
    /\ external = <<StandaloneCommand("D1", 1)>>

Init == InitCoordinated \/ InitStandalone

\* lib.rs 175-248: run_inner owns the daemon (`mut self`); when it returns, the
\* daemon is dropped and with it everything its tables own
Terminate(result, kind, reply, error) ==
    /\ status' = result
    /\ prepared_messages' = EmptyFn
    /\ sent_out_shared_memory' = EmptyFn
    /\ running' = EmptyFn
    /\ shmem' = {}
    /\ rc' = EmptyFn
    /\ last' = Handled(kind, reply, error, <<>>)
    /\ UNCHANGED <<coordinator_addr, external, next_id, next_token, spawned,
                   timer_tasks, delivered, dropped>>

\* lib.rs 41-55: the tables of the daemon that the memory hand-off works on,
\* with the events the handler enqueued
Tables ==
    [prepared_messages |-> prepared_messages,
     sent_out_shared_memory |-> sent_out_shared_memory,
     running |-> running,
     shmem |-> shmem,
     rc |-> rc,
     next_id |-> next_id,
     next_token |-> next_token,
     delivered |-> delivered,
     dropped |-> dropped,
     sent |-> <<>>,
     closed |-> <<>>]

\* ------------------------------------------------------------------ spawn

\* lib.rs 302-327: the inputs of one node, in BTreeMap order
RECURSIVE InstallInputs(_, _, _, _)
InstallInputs(dataflow, node_id, inputs, order) ==
    IF order = <<>> THEN [dataflow |-> dataflow, error |-> ""]
    ELSE
      LET input_id == Head(order)
          mapping == inputs[input_id]
          opened == [dataflow EXCEPT !.open_inputs =
                        Put(@, node_id, GetOrEmpty(@, node_id) \cup {input_id})]
      IN  IF mapping.kind = "User"
          THEN IF mapping.operator
               THEN [dataflow |-> opened, error |-> "operators are not supported"]
               ELSE LET key == <<mapping.source, mapping.output>>
                        mapped == [opened EXCEPT !.mappings =
                            Put(@, key, GetOrEmpty(@, key) \cup {<<node_id, input_id>>})]
                    IN  InstallInputs(mapped, node_id, inputs, Tail(order))
          ELSE LET timed == [opened EXCEPT !.timers =
                        Put(@, mapping.interval,
                            GetOrEmpty(@, mapping.interval) \cup {<<node_id, input_id>>})]
               IN  InstallInputs(timed, node_id, inputs, Tail(order))

\* a spawn that leaves nothing behind when it fails
InstallNothing(dataflow, nodes, order, fail_node, started) ==
    [dataflow |-> dataflow,
     error |-> IF fail_node = NoNode THEN "" ELSE "failed to spawn node",
     started |-> {}]

\* lib.rs 300-332: the nodes of the command, in BTreeMap order; spawn_node fails
\* for the node `fail_node`
RECURSIVE InstallNodes(_, _, _, _, _)
InstallNodes(dataflow, nodes, order, fail_node, started) ==
    IF order = <<>> THEN [dataflow |-> dataflow, error |-> "", started |-> started]
    ELSE
      LET node_id == Head(order)
          inserted == [dataflow EXCEPT !.running_nodes = @ \cup {node_id}]
          r == InstallInputs(inserted, node_id, nodes[node_id],
                             SortedBy(DataOrder, DOMAIN nodes[node_id]))
      IN  IF r.error # ""
          THEN [dataflow |-> r.dataflow, error |-> r.error, started |-> started]
          ELSE IF node_id = fail_node
          THEN [dataflow |-> r.dataflow, error |-> "failed to spawn node",
                started |-> started]
          ELSE InstallNodes(r.dataflow, nodes, Tail(order), fail_node,
                            started \cup {node_id})

\* a spawn that installs the command over whatever entry the id has
spawn_dataflow_overwriting(dataflow_id, nodes, fail_node) ==
    LET r == InstallNodes(DefaultDataflow, nodes, SortedBy(NodeOrder, DOMAIN nodes),
                          fail_node, {})
        intervals == IF r.error = "" THEN DOMAIN r.dataflow.timers ELSE {}
        dataflow == [r.dataflow EXCEPT !.timer_handles = intervals]
    IN  [running |-> Put(running, dataflow_id, dataflow), error |-> r.error,
         started |-> r.started, timers |-> intervals]

\* lib.rs 289-359
spawn_dataflow(dataflow_id, nodes, fail_node) ==
    IF dataflow_id \in DOMAIN running
    THEN [running |-> running, error |-> "there is already a running dataflow",
          started |-> {}, timers |-> {}]
    ELSE
      LET r == InstallNodes(DefaultDataflow, nodes, SortedBy(NodeOrder, DOMAIN nodes),
                            fail_node, {})
          intervals == IF r.error = "" THEN DOMAIN r.dataflow.timers ELSE {}
          dataflow == [r.dataflow EXCEPT !.timer_handles = intervals]
      IN  [running |-> Put(running, dataflow_id, dataflow), error |-> r.error,
           started |-> r.started, timers |-> intervals]

\* lib.rs 194-201, 255-260: a Spawn command of the coordinator (or of the
\* standalone runner's one-shot stream)
Spawn(dataflow_id, k, fail_node) ==
    /\ status = "running"
    /\ IF coordinator_addr THEN TRUE
       ELSE /\ external # <<>>
            /\ Head(external) = StandaloneCommand(dataflow_id, k)
    /\ LET r == spawn_dataflow(dataflow_id, Descriptors[k], fail_node)
       IN  IF ~coordinator_addr /\ r.error # ""
           THEN \* lib.rs 117-126: the standalone runner joins the loop with the
                \* spawn reply, and an error reply ends the run
                /\ status' = "failed"
                /\ prepared_messages' = EmptyFn
                /\ sent_out_shared_memory' = EmptyFn
                /\ running' = EmptyFn
                /\ shmem' = {}
                /\ rc' = EmptyFn
                /\ external' = Tail(external)
                /\ last' = Handled("Spawn", "Err", r.error, <<>>)
                /\ UNCHANGED <<exit_when_done, coordinator_addr, next_id, next_token,
                               spawned, timer_tasks, delivered, dropped>>
           ELSE /\ running' = r.running
                /\ spawned' = spawned \cup {<<dataflow_id, n>> : n \in r.started}
                /\ timer_tasks' = timer_tasks \cup {<<dataflow_id, i>> : i \in r.timers}
                /\ last' = Handled("Spawn", IF r.error = "" THEN "Ok" ELSE "Err",
                                   r.error, <<>>)
                /\ external' = IF coordinator_addr THEN external ELSE Tail(external)
                /\ UNCHANGED <<status, prepared_messages, sent_out_shared_memory,
                               exit_when_done, coordinator_addr, shmem, rc, next_id,
                               next_token, delivered, dropped>>

\* ------------------------------------------------------------- node events

\* lib.rs 369-380
Subscribe(dataflow_id, node_id) ==
    /\ status = "running"
    /\ IF dataflow_id \in DOMAIN running
       THEN /\ running' = [running EXCEPT ![dataflow_id].subscribe_channels =
                                Put(@, node_id, NewChannel)]
            /\ last' = Handled("Subscribe", "Ok", "", <<>>)
       ELSE /\ running' = running
            /\ last' = Handled("Subscribe", "Err",
                               "subscribe failed: no running dataflow", <<>>)
    /\ UNCHANGED <<status, prepared_messages, sent_out_shared_memory, exit_when_done,
                   coordinator_addr, external, shmem, rc, next_id, next_token,
                   spawned, timer_tasks, delivered, dropped>>

\* a store that keeps the message whether or not the reply was delivered
StorePreparedNoRollback(prepared, id, message, reply_ok) == Put(prepared, id, message)

\* lib.rs 400-413: store the message under its handle; roll back when the
\* reply cannot be delivered
StorePrepared(prepared, id, message, reply_ok) ==
    IF reply_ok THEN Put(prepared, id, message)
    ELSE Remove(Put(prepared, id, message), id)

\* lib.rs 381-413: the handler once the segment is allocated; the handle is a
\* fresh id, and the segment lives as long as the PreparedMessage owns it
OnPrepareOutputMessage(t, output_id, data_len, reply_ok) ==
    LET id == t.next_id
        memory == IF data_len > 0 THEN id ELSE NoSeg
        message == [output_id |-> output_id, data |-> memory, len |-> data_len]
        stored == StorePrepared(t.prepared_messages, id, message, reply_ok)
    IN  [t EXCEPT !.prepared_messages = stored,
                  !.shmem = IF memory # NoSeg /\ id \in DOMAIN stored
                            THEN @ \cup {memory} ELSE @,
                  !.next_id = @ + 1]

\* lib.rs 381-414
PrepareOutputMessage(dataflow_id, node_id, output_id, data_len, alloc_ok, reply_ok) ==
    /\ status = "running"
    /\ next_id <= MaxPrepares
    /\ IF data_len > 0 /\ ~alloc_ok
       THEN /\ Terminate("failed", "PrepareOutputMessage", "NoReply",
                         "failed to allocate shared memory")
            /\ UNCHANGED exit_when_done
       ELSE LET t == OnPrepareOutputMessage(Tables, output_id, data_len, reply_ok)
            IN  /\ prepared_messages' = t.prepared_messages
                /\ shmem' = t.shmem
                /\ next_id' = t.next_id
                /\ last' = Handled("PrepareOutputMessage",
                                   IF reply_ok THEN "PreparedMessage" ELSE "Undelivered",
                                   "", <<>>)
                /\ UNCHANGED <<status, sent_out_shared_memory, running, exit_when_done,
                               coordinator_addr, external, rc, next_token, spawned, timer_tasks, delivered, dropped>>

\* ------------------------------------------------------- subscriber queues

InputEvent(input_id, memory, len, drop_token) ==
    [type |-> "Input", id |-> input_id, seg |-> memory, len |-> len,
     token |-> IF memory # NoSeg THEN drop_token ELSE 0]

InputClosedEvent(input_id) ==
    [type |-> "InputClosed", id |-> input_id, seg |-> NoSeg, len |-> 0, token |-> 0]

StopEvent == [type |-> "Stop", id |-> "", seg |-> NoSeg, len |-> 0, token |-> 0]

\* what a queue holds of an event: its kind and the input it is for
Queued(event) == [type |-> event.type, id |-> event.id]

\* a send that waits for room however long the receiver takes
TimedSendNeverGivesUp(channel, event, slow) ==
    IF channel.closed THEN [result |-> "closed", channel |-> channel]
    ELSE IF Len(channel.q) < ChanCap
    THEN [result |-> "ok", channel |-> [channel EXCEPT !.q = Append(@, Queued(event))]]
    ELSE [result |-> "ok",
          channel |-> [channel EXCEPT !.q = Append(Tail(@), Queued(event))]]

\* lib.rs 453, 576: timeout(.., channel.send_async(event)). A closed channel
\* refuses the event; a full queue accepts it only if the receiver takes an
\* event off the queue before the timeout (it does not when `slow`).
TimedSend(channel, event, slow) ==
    IF channel.closed THEN [result |-> "closed", channel |-> channel]
    ELSE IF Len(channel.q) < ChanCap
    THEN [result |-> "ok", channel |-> [channel EXCEPT !.q = Append(@, Queued(event))]]
    ELSE IF slow THEN [result |-> "timeout", channel |-> channel]
    ELSE [result |-> "ok",
          channel |-> [channel EXCEPT !.q = Append(Tail(@), Queued(event))]]

\* lib.rs 269, 504-508: channel.send_async(event).await without a timeout: on
\* a full queue the handler waits until the receiver takes an event or goes away
BlockingSend(channel, event, slow) ==
    IF channel.closed THEN [result |-> "closed", channel |-> channel]
    ELSE IF Len(channel.q) < ChanCap
    THEN [result |-> "ok", channel |-> [channel EXCEPT !.q = Append(@, Queued(event))]]
    ELSE IF slow THEN [result |-> "stalled", channel |-> channel]
    ELSE [result |-> "ok",
          channel |-> [channel EXCEPT !.q = Append(Tail(@), Queued(event))]]

\* the subscribers of a dataflow whose queue is full
FullReceivers(dataflow_id) ==
    IF dataflow_id \notin DOMAIN running THEN {}
    ELSE {n \in DOMAIN running[dataflow_id].subscribe_channels :
            LET c == running[dataflow_id].subscribe_channels[n]
            IN  ~c.closed /\ Len(c.q) = ChanCap}

\* a clean-up that forgets the receivers pushed on `closed`
RemoveNone(f, ids) == f

\* subscribe_channels.remove(id) for every id pushed on `closed`
RECURSIVE RemoveAll(_, _)
RemoveAll(f, ids) ==
    IF ids = <<>> THEN f ELSE RemoveAll(Remove(f, Head(ids)), Tail(ids))

\* ---------------------------------------------------------- shared memory

\* a table keyed by one constant token instead of the token of the delivery
KeepSharedMemoryUnderOneKey(st, drop_token, memory, delivery) ==
    IF memory # NoSeg
    THEN [st EXCEPT !.sent_out_shared_memory = Put(@, 1, memory),
                    !.strong = @ + 1,
                    !.delivered = Put(@, 1, delivery)]
    ELSE st

\* lib.rs 456-459: the table keeps a clone of the Rc under the delivery's token
KeepSharedMemory(st, drop_token, memory, delivery) ==
    IF memory # NoSeg
    THEN [st EXCEPT !.sent_out_shared_memory = Put(@, drop_token, memory),
                    !.strong = @ + 1,
                    !.delivered = Put(@, drop_token, delivery)]
    ELSE st

\* lib.rs 440-471: the fan-out loop over local_receivers, in BTreeSet order
RECURSIVE SendFanOut(_, _, _, _, _, _)
SendFanOut(st, receivers, dataflow_id, memory, len, slow) ==
    IF receivers = <<>> THEN st
    ELSE
      LET receiver_id == Head(receivers)[1]
          input_id == Head(receivers)[2]
      IN  IF receiver_id \notin DOMAIN st.subscribe_channels
          THEN SendFanOut(st, Tail(receivers), dataflow_id, memory, len, slow)
          ELSE
            LET drop_token == st.next_token
                event == InputEvent(input_id, memory, len, drop_token)
                r == TimedSend(st.subscribe_channels[receiver_id], event,
                               receiver_id \in slow)
                minted == [st EXCEPT !.next_token = @ + 1,
                                     !.subscribe_channels[receiver_id] = r.channel]
                delivery == [seg |-> memory, dataflow |-> dataflow_id,
                             receiver |-> receiver_id, input |-> input_id]
                after ==
                    IF r.result = "ok"
                    THEN KeepSharedMemory(
                            [minted EXCEPT !.sent = Append(@, <<receiver_id, event>>)],
                            drop_token, memory, delivery)
                    ELSE IF r.result = "closed"
                    THEN [minted EXCEPT !.closed = Append(@, receiver_id)]
                    ELSE minted
            IN  SendFanOut(after, Tail(receivers), dataflow_id, memory, len, slow)

\* a release that unmaps the segment whatever the count
RcReleaseAtOnce(segments, counts, memory) ==
    [shmem |-> segments \ {memory}, rc |-> Remove(counts, memory)]

\* dropping one Rc handle: the segment is unmapped with the last one
RcRelease(segments, counts, memory) ==
    IF memory = NoSeg THEN [shmem |-> segments, rc |-> counts]
    ELSE IF counts[memory] = 1
    THEN [shmem |-> segments \ {memory}, rc |-> Remove(counts, memory)]
    ELSE [shmem |-> segments, rc |-> [counts EXCEPT ![memory] = @ - 1]]

\* a lookup that leaves the entry in the table
TakePreparedKeeping(prepared, id) == prepared

\* lib.rs 416-419: prepared_messages.remove(&id)
TakePrepared(prepared, id) == Remove(prepared, id)

\* lib.rs 420-481: the handler once the message is found and its dataflow runs
OnSendOutMessage(t, dataflow_id, node_id, id, slow) ==
    LET message == t.prepared_messages[id]
        memory == message.data
        dataflow == t.running[dataflow_id]
        local_receivers ==
            GetOrEmpty(dataflow.mappings, <<node_id, message.output_id>>)
        st0 == [subscribe_channels |-> dataflow.subscribe_channels,
                sent_out_shared_memory |-> t.sent_out_shared_memory,
                strong |-> 1,
                next_token |-> t.next_token,
                delivered |-> t.delivered,
                closed |-> <<>>,
                sent |-> <<>>]
        st == SendFanOut(st0, SortedBy(InputIdOrder, local_receivers),
                         dataflow_id, memory, message.len, slow)
        counted == IF memory = NoSeg THEN t.rc ELSE Put(t.rc, memory, st.strong)
        released == RcRelease(t.shmem, counted, memory)
    IN  [t EXCEPT !.prepared_messages = TakePrepared(@, id),
                  !.running[dataflow_id].subscribe_channels =
                        RemoveAll(st.subscribe_channels, st.closed),
                  !.sent_out_shared_memory = st.sent_out_shared_memory,
                  !.next_token = st.next_token,
                  !.delivered = st.delivered,
                  !.shmem = released.shmem,
                  !.rc = released.rc,
                  !.sent = st.sent,
                  !.closed = st.closed]

\* lib.rs 415-482
SendOutMessage(dataflow_id, node_id, id, slow) ==
    /\ status = "running"
    /\ IF id \notin DOMAIN prepared_messages
       THEN \* lib.rs 419, 208-210: the error ends run_inner
            /\ Terminate("failed", "SendOutMessage", "NoReply",
                         "invalid shared memory id")
            /\ UNCHANGED exit_when_done
       ELSE IF dataflow_id \notin DOMAIN running
       THEN \* lib.rs 427-429, 208-210
            /\ Terminate("failed", "SendOutMessage", "NoReply",
                         "send out failed: no running dataflow")
            /\ UNCHANGED exit_when_done
       ELSE
         LET t == OnSendOutMessage(Tables, dataflow_id, node_id, id, slow)
         IN  /\ prepared_messages' = t.prepared_messages
             /\ running' = t.running
             /\ sent_out_shared_memory' = t.sent_out_shared_memory
             /\ next_token' = t.next_token
             /\ delivered' = t.delivered
             /\ shmem' = t.shmem
             /\ rc' = t.rc
             /\ last' = [Handled("SendOutMessage", "Ok", "", t.sent) EXCEPT
                            !.closed = t.closed]
             /\ UNCHANGED <<status, exit_when_done, coordinator_addr, external, next_id,
                            spawned, timer_tasks, dropped>>

\* lib.rs 216-222: the token's entry is removed and its Rc handle dropped
OnDrop(t, token) ==
    IF token \in DOMAIN t.sent_out_shared_memory
    THEN LET released == RcRelease(t.shmem, t.rc, t.sent_out_shared_memory[token])
         IN  [t EXCEPT !.sent_out_shared_memory = Remove(@, token),
                       !.shmem = released.shmem,
                       !.rc = released.rc,
                       !.dropped = @ \cup {token}]
    ELSE t

\* lib.rs 215-226
Drop(token) ==
    /\ status = "running"
    /\ LET t == OnDrop(Tables, token)
       IN  /\ sent_out_shared_memory' = t.sent_out_shared_memory
           /\ shmem' = t.shmem
           /\ rc' = t.rc
           /\ dropped' = t.dropped
    /\ last' = Handled("Drop", "None",
                       IF token \in DOMAIN sent_out_shared_memory
                       THEN "" ELSE "unknown drop token", <<>>)
    /\ UNCHANGED <<status, prepared_messages, running, exit_when_done,
                   coordinator_addr, external, next_id, next_token, spawned,
                   timer_tasks, delivered>>

\* lib.rs 493-498: every InputId mapped from an output of node_id
DownstreamNodes(dataflow, node_id) ==
    UNION {dataflow.mappings[k] : k \in {m \in DOMAIN dataflow.mappings : m[1] = node_id}}

\* lib.rs 510-516: the input is no longer open; a receiver without open inputs
\* loses its subscribe channel
CloseInput(st, receiver_id, input_id) ==
    IF receiver_id \in DOMAIN st.open_inputs
    THEN LET open_inputs == st.open_inputs[receiver_id] \ {input_id}
             closed == [st EXCEPT !.open_inputs[receiver_id] = open_inputs]
         IN  IF open_inputs = {}
             THEN [closed EXCEPT !.subscribe_channels = Remove(@, receiver_id)]
             ELSE closed
    ELSE st

\* lib.rs 499-517: the InputClosed notifications, in BTreeSet order
RECURSIVE NotifyDownstream(_, _, _)
NotifyDownstream(st, receivers, slow) ==
    IF receivers = <<>> THEN st
    ELSE
      LET receiver_id == Head(receivers)[1]
          input_id == Head(receivers)[2]
      IN  IF receiver_id \notin DOMAIN st.subscribe_channels
          THEN NotifyDownstream(st, Tail(receivers), slow)
          ELSE
            LET event == InputClosedEvent(input_id)
                r == BlockingSend(st.subscribe_channels[receiver_id], event,
                                  receiver_id \in slow)
                pushed == [st EXCEPT !.subscribe_channels[receiver_id] = r.channel,
                                     !.sent = IF r.result = "ok"
                                              THEN Append(@, <<receiver_id, event>>)
                                              ELSE @]
            IN  IF r.result = "stalled" THEN [st EXCEPT !.stalled = TRUE]
                ELSE NotifyDownstream(CloseInput(pushed, receiver_id, input_id),
                                      Tail(receivers), slow)

\* a handler that replies once everything else is done
StoppedEffectsReplyLast(enqueued, completed) ==
    [i \in 1..Len(enqueued) |-> "InputClosed"]
        \o (IF completed THEN <<"remove", "reply">> ELSE <<>>)

\* lib.rs 486, 504-508, 521: what the Stopped handler has done when it ends or
\* gets stuck: the reply first, then the InputClosed events it enqueued, then,
\* if it came that far, the removal from running_nodes
StoppedEffects(enqueued, completed) ==
    <<"reply">> \o [i \in 1..Len(enqueued) |-> "InputClosed"]
        \o (IF completed THEN <<"remove">> ELSE <<>>)

\* lib.rs 486: the reply the node holds, given what the handler did
Replied(effects) ==
    IF \E i \in 1..Len(effects) : effects[i] = "reply" THEN "Ok" ELSE "NoReply"

\* lib.rs 483-544
Stopped(dataflow_id, node_id, slow) ==
    /\ status = "running"
    /\ IF dataflow_id \notin DOMAIN running
       THEN \* lib.rs 489-492, 208-210: the error ends run_inner, after the reply
            LET effects == StoppedEffects(<<>>, FALSE)
            IN  /\ status' = "failed"
                /\ prepared_messages' = EmptyFn
                /\ sent_out_shared_memory' = EmptyFn
                /\ running' = EmptyFn
                /\ shmem' = {}
                /\ rc' = EmptyFn
                /\ last' = [Handled("Stopped", Replied(effects),
                                    "failed to get downstream nodes: no running dataflow",
                                    <<>>) EXCEPT !.effects = effects]
                /\ UNCHANGED <<exit_when_done, coordinator_addr, external, next_id,
                               next_token, spawned, timer_tasks, delivered, dropped>>
       ELSE
         LET dataflow == running[dataflow_id]
             st0 == [subscribe_channels |-> dataflow.subscribe_channels,
                     open_inputs |-> dataflow.open_inputs,
                     sent |-> <<>>,
                     stalled |-> FALSE]
             st == NotifyDownstream(
                       st0, SortedBy(InputIdOrder, DownstreamNodes(dataflow, node_id)),
                       slow)
             notified == [dataflow EXCEPT !.subscribe_channels = st.subscribe_channels,
                                          !.open_inputs = st.open_inputs]
             running_nodes == dataflow.running_nodes \ {node_id}
             effects == StoppedEffects(st.sent, ~st.stalled)
             handled == [Handled("Stopped", Replied(effects), "", st.sent) EXCEPT
                            !.effects = effects]
         IN  /\ IF st.stalled
                THEN /\ status' = "stalled"
                     /\ running' = [running EXCEPT ![dataflow_id] = notified]
                     /\ last' = handled
                ELSE /\ status' = status
                     /\ IF running_nodes = {}
                        THEN /\ last' = IF coordinator_addr
                                        THEN [handled EXCEPT
                                                !.coordinator = "AllNodesFinished"]
                                        ELSE handled
                             /\ running' = Remove(running, dataflow_id)
                        ELSE /\ running' = [running EXCEPT ![dataflow_id] =
                                    [notified EXCEPT !.running_nodes = running_nodes]]
                             /\ last' = handled
             /\ UNCHANGED <<prepared_messages, sent_out_shared_memory, exit_when_done,
                            coordinator_addr, external, shmem, rc, next_id, next_token,
                            spawned, timer_tasks, delivered, dropped>>

\* ------------------------------------------------------------- dora events

\* a tick that goes to every subscribed node
TimerFanOutToAll(st, subscribers, slow) ==
    LET order == SortedBy(NodeOrder, DOMAIN st.subscribe_channels)
    IN  [st EXCEPT !.sent = [i \in 1..Len(order) |->
                                <<order[i], InputEvent("tick", NoSeg, 0, 0)>>]]

\* lib.rs 566-587: the tick fan-out, in BTreeSet order
RECURSIVE TimerFanOut(_, _, _)
TimerFanOut(st, subscribers, slow) ==
    IF subscribers = <<>> THEN st
    ELSE
      LET receiver_id == Head(subscribers)[1]
          input_id == Head(subscribers)[2]
      IN  IF receiver_id \notin DOMAIN st.subscribe_channels
          THEN TimerFanOut(st, Tail(subscribers), slow)
          ELSE
            LET event == InputEvent(input_id, NoSeg, 0, 0)
                r == TimedSend(st.subscribe_channels[receiver_id], event,
                               receiver_id \in slow)
                pushed == [st EXCEPT !.subscribe_channels[receiver_id] = r.channel]
                after ==
                    IF r.result = "ok"
                    THEN [pushed EXCEPT !.sent = Append(@, <<receiver_id, event>>)]
                    ELSE IF r.result = "closed"
                    THEN [pushed EXCEPT !.closed = Append(@, receiver_id)]
                    ELSE pushed
            IN  TimerFanOut(after, Tail(subscribers), slow)

\* lib.rs 551-591: a tick of a timer task started by spawn_dataflow
Timer(dataflow_id, interval, slow) ==
    /\ status = "running"
    /\ <<dataflow_id, interval>> \in timer_tasks
    /\ IF dataflow_id \notin DOMAIN running
       THEN /\ running' = running
            /\ last' = Handled("Timer", "None", "unknown dataflow", <<>>)
       ELSE IF interval \notin DOMAIN running[dataflow_id].timers
       THEN /\ running' = running
            /\ last' = Handled("Timer", "None", "", <<>>)
       ELSE
         LET dataflow == running[dataflow_id]
             st0 == [subscribe_channels |-> dataflow.subscribe_channels,
                     closed |-> <<>>, sent |-> <<>>]
             st == TimerFanOut(st0, SortedBy(InputIdOrder, dataflow.timers[interval]),
                               slow)
         IN  /\ running' = [running EXCEPT ![dataflow_id].subscribe_channels =
                                RemoveAll(st.subscribe_channels, st.closed)]
             /\ last' = [Handled("Timer", "None", "", st.sent) EXCEPT
                            !.closed = st.closed]
    /\ UNCHANGED <<status, prepared_messages, sent_out_shared_memory, exit_when_done,
                   coordinator_addr, external, shmem, rc, next_id, next_token, spawned, timer_tasks, delivered, dropped>>

\* a daemon that exits at the first report
ExitAtFirstResult(when_done, pair) ==
    [set |-> IF when_done.is_some THEN when_done.set \ {pair} ELSE when_done.set,
     exit |-> when_done.is_some]

\* lib.rs 621-629: the pair leaves exit_when_done, and the loop exits when the
\* set is empty
ExitWhenDone(when_done, pair) ==
    IF when_done.is_some
    THEN [set |-> when_done.set \ {pair}, exit |-> when_done.set \ {pair} = {}]
    ELSE [set |-> when_done.set, exit |-> FALSE]

\* lib.rs 592-630: the termination report of a spawned node process
SpawnedNodeResult(dataflow_id, node_id, ok) ==
    /\ status = "running"
    /\ <<dataflow_id, node_id>> \in spawned
    /\ IF ~ok /\ exit_when_done.is_some
       THEN /\ Terminate("failed", "SpawnedNodeResult", "None", "error in node")
            /\ UNCHANGED exit_when_done
       ELSE
         LET r == ExitWhenDone(exit_when_done, <<dataflow_id, node_id>>)
             error == IF ok THEN "" ELSE "error in node"
         IN  IF r.exit
             THEN /\ Terminate("exited", "SpawnedNodeResult", "None", error)
                  /\ exit_when_done' = [exit_when_done EXCEPT !.set = r.set]
             ELSE /\ exit_when_done' = [exit_when_done EXCEPT !.set = r.set]
                  /\ spawned' = spawned \ {<<dataflow_id, node_id>>}
                  /\ last' = Handled("SpawnedNodeResult", "None", error, <<>>)
                  /\ UNCHANGED <<status, prepared_messages, sent_out_shared_memory,
                                 running, coordinator_addr, external, shmem, rc,
                                 next_id, next_token, timer_tasks, delivered,
                                 dropped>>

\* ------------------------------------------------------ coordinator events

\* a drain that sends nothing
StopEventsNone(channels, nodes) == <<>>

\* the Stop events of a StopDataflow, to the open channels among `nodes`
StopEvents(channels, nodes) ==
    LET order == SortedBy(NodeOrder, {n \in nodes : ~channels[n].closed})
    IN  [i \in 1..Len(order) |-> <<order[i], StopEvent>>]

\* lib.rs 261-277. The drain order of the HashMap is unspecified: when the send
\* to `stall_at` never completes, `done` are the channels drained before it.
StopDataflow(dataflow_id, stall_at, done) ==
    /\ status = "running"
    /\ coordinator_addr
    /\ IF dataflow_id \notin DOMAIN running
       THEN /\ stall_at = NoNode /\ done = {}
            /\ last' = Handled("StopDataflow", "Err", "no running dataflow", <<>>)
            /\ UNCHANGED <<status, running>>
       ELSE
         LET channels == running[dataflow_id].subscribe_channels
         IN  IF stall_at = NoNode
             THEN /\ done = {}
                  /\ running' = [running EXCEPT ![dataflow_id].subscribe_channels =
                                    EmptyFn]
                  /\ status' = status
                  /\ last' = Handled("StopDataflow", "Ok", "",
                                     StopEvents(channels, DOMAIN channels))
             ELSE /\ stall_at \in FullReceivers(dataflow_id)
                  /\ done \subseteq (DOMAIN channels) \ FullReceivers(dataflow_id)
                  /\ running' = [running EXCEPT ![dataflow_id].subscribe_channels =
                                    [n \in (DOMAIN channels) \ (done \cup {stall_at}) |->
                                        channels[n]]]
                  /\ status' = "stalled"
                  /\ last' = Handled("StopDataflow", "NoReply", "",
                                     StopEvents(channels, done))
    /\ UNCHANGED <<prepared_messages, sent_out_shared_memory, exit_when_done,
                   coordinator_addr, external, shmem, rc, next_id, next_token, spawned, timer_tasks, delivered, dropped>>

\* lib.rs 278-282, 197-200
Destroy ==
    /\ status = "running"
    /\ coordinator_addr
    /\ Terminate("exited", "Destroy", "DestroyResult", "")
    /\ UNCHANGED exit_when_done

\* lib.rs 283-285
Watchdog ==
    /\ status = "running"
    /\ coordinator_addr
    /\ last' = Handled("Watchdog", "WatchdogAck", "", <<>>)
    /\ UNCHANGED <<status, prepared_messages, sent_out_shared_memory, running,
                   exit_when_done, coordinator_addr, external, shmem, rc, next_id,
                   next_token, spawned, timer_tasks, delivered, dropped>>

\* ------------------------------------------------------------ other events

\* a tick that shrugs off a failed exchange
WatchdogIntervalIgnoring(acked) ==
    /\ status = "running"
    /\ last' = [Handled("WatchdogInterval", "None", "", <<>>) EXCEPT
                    !.coordinator = IF coordinator_addr THEN "Watchdog" ELSE ""]
    /\ UNCHANGED <<status, prepared_messages, sent_out_shared_memory, running,
                   exit_when_done, coordinator_addr, external, shmem, rc,
                   next_id, next_token, spawned, timer_tasks, delivered, dropped>>

\* lib.rs 227-243: `acked` is whether the exchange with the coordinator succeeds
WatchdogInterval(acked) ==
    /\ status = "running"
    /\ IF coordinator_addr /\ ~acked
       THEN /\ Terminate("failed", "WatchdogInterval", "None",
                         "lost connection to coordinator")
            /\ UNCHANGED exit_when_done
       ELSE /\ last' = [Handled("WatchdogInterval", "None", "", <<>>) EXCEPT
                           !.coordinator = IF coordinator_addr THEN "Watchdog" ELSE ""]
            /\ UNCHANGED <<status, prepared_messages, sent_out_shared_memory, running,
                           exit_when_done, coordinator_addr, external, shmem, rc,
                           next_id, next_token, spawned, timer_tasks,
                           delivered, dropped>>

\* lib.rs 186-190: set_nodelay may fail, which ends run_inner
NewConnection(nodelay_ok) ==
    /\ status = "running"
    /\ IF ~nodelay_ok
       THEN /\ Terminate("failed", "NewConnection", "None", "set_nodelay failed")
            /\ UNCHANGED exit_when_done
       ELSE /\ last' = Handled("NewConnection", "None", "", <<>>)
            /\ UNCHANGED <<status, prepared_messages, sent_out_shared_memory, running,
                           exit_when_done, coordinator_addr, external, shmem, rc,
                           next_id, next_token, spawned, timer_tasks,
                           delivered, dropped>>

\* lib.rs 191-193
ConnectError ==
    /\ status = "running"
    /\ last' = Handled("ConnectError", "None", "failed to connect", <<>>)
    /\ UNCHANGED <<status, prepared_messages, sent_out_shared_memory, running,
                   exit_when_done, coordinator_addr, external, shmem, rc, next_id,
                   next_token, spawned, timer_tasks, delivered, dropped>>

\* ------------------------------------------------- the subscribers' side

\* the node takes the next event off its queue
NodeReceive(dataflow_id, node_id) ==
    /\ status = "running"
    /\ dataflow_id \in DOMAIN running
    /\ node_id \in DOMAIN running[dataflow_id].subscribe_channels
    /\ running[dataflow_id].subscribe_channels[node_id].q # <<>>
    /\ running' = [running EXCEPT ![dataflow_id].subscribe_channels[node_id].q = Tail(@)]
    /\ last' = Handled("Node", "None", "", <<>>)
    /\ UNCHANGED <<status, prepared_messages, sent_out_shared_memory, exit_when_done,
                   coordinator_addr, external, shmem, rc, next_id, next_token, spawned, timer_tasks, delivered, dropped>>

\* the node drops the receive half of its queue
NodeDisconnect(dataflow_id, node_id) ==
    /\ status = "running"
    /\ dataflow_id \in DOMAIN running
    /\ node_id \in DOMAIN running[dataflow_id].subscribe_channels
    /\ ~running[dataflow_id].subscribe_channels[node_id].closed
    /\ running' = [running EXCEPT ![dataflow_id].subscribe_channels[node_id] =
                      [q |-> <<>>, closed |-> TRUE]]
    /\ last' = Handled("Node", "None", "", <<>>)
    /\ UNCHANGED <<status, prepared_messages, sent_out_shared_memory, exit_when_done,
                   coordinator_addr, external, shmem, rc, next_id, next_token, spawned, timer_tasks, delivered, dropped>>

\* --------------------------------------------------------- specifications

\* every event, from every source
Next ==
    \/ \E d \in DataflowIds, k \in 1..Len(Descriptors), f \in Nodes \cup {NoNode} :
          Spawn(d, k, f)
    \/ \E d \in DataflowIds, n \in Nodes : Subscribe(d, n)
    \/ \E d \in DataflowIds, n \in Nodes, len \in {0, 1}, alloc_ok, reply_ok \in BOOLEAN :
          PrepareOutputMessage(d, n, "x", len, alloc_ok, reply_ok)
    \/ \E d \in DataflowIds, n \in Nodes, id \in 1..next_id :
          \E slow \in SUBSET FullReceivers(d) : SendOutMessage(d, n, id, slow)
    \/ \E token \in 1..next_token : Drop(token)
    \/ \E d \in DataflowIds, n \in Nodes :
          \E slow \in SUBSET FullReceivers(d) : Stopped(d, n, slow)
    \/ \E d \in DataflowIds :
          \E slow \in SUBSET FullReceivers(d) : Timer(d, Interval, slow)
    \/ \E d \in DataflowIds, n \in Nodes, ok \in BOOLEAN : SpawnedNodeResult(d, n, ok)
    \/ \E d \in DataflowIds, stall_at \in Nodes \cup {NoNode}, done \in SUBSET Nodes :
          StopDataflow(d, stall_at, done)
    \/ Destroy
    \/ Watchdog
    \/ \E acked \in BOOLEAN : WatchdogInterval(acked)
    \/ \E nodelay_ok \in BOOLEAN : NewConnection(nodelay_ok)
    \/ ConnectError
    \/ \E d \in DataflowIds, n \in Nodes : NodeReceive(d, n)
    \/ \E d \in DataflowIds, n \in Nodes : NodeDisconnect(d, n)

Spec == Init /\ [][Next]_vars

\* The shared-memory hand-off: one dataflow of the coordinator, its producer p
\* and its subscribers a and b; D2 is never spawned
NextMemory ==
    \/ Spawn("D1", 1, NoNode)
    \/ \E n \in {"a", "b"} : Subscribe("D1", n)
    \/ \E n \in {"a", "b"} : Subscribe("D2", n)
    \/ \E n \in Nodes : Stopped("D2", n, {})
    \/ \E len \in {0, 1}, alloc_ok, reply_ok \in BOOLEAN :
          PrepareOutputMessage("D1", "p", "x", len, alloc_ok, reply_ok)
    \/ \E d \in DataflowIds, n \in {"a", "p"}, id \in 1..next_id :
          \E slow \in SUBSET FullReceivers(d) : SendOutMessage(d, n, id, slow)
    \/ \E token \in 1..next_token : Drop(token)
    \/ \E slow \in SUBSET FullReceivers("D1") : Timer("D1", Interval, slow)
    \/ \E stall_at \in Nodes \cup {NoNode}, done \in SUBSET Nodes :
          StopDataflow("D1", stall_at, done)
    \/ \E n \in {"a", "b"} : NodeReceive("D1", n)
    \/ \E n \in {"a", "b"} : NodeDisconnect("D1", n)

SpecMemory == InitCoordinated /\ [][NextMemory]_vars

\* The life of a dataflow: D1 spawned from either command, in full or failing
\* at node b, its nodes subscribing and stopping, the timers, the coordinator's
\* commands, under a coordinator or standalone; D2 is never spawned
NextLifecycle ==
    \/ \E k \in 1..Len(Descriptors), f \in {"b", NoNode} : Spawn("D1", k, f)
    \/ \E d \in DataflowIds, n \in Nodes : Subscribe(d, n)
    \/ \E d \in DataflowIds, n \in Nodes :
          \E slow \in SUBSET FullReceivers(d) : Stopped(d, n, slow)
    \/ \E slow \in SUBSET FullReceivers("D1") : Timer("D1", Interval, slow)
    \/ \E n \in Nodes, ok \in BOOLEAN : SpawnedNodeResult("D1", n, ok)
    \/ \E d \in DataflowIds, stall_at \in Nodes \cup {NoNode}, done \in SUBSET Nodes :
          StopDataflow(d, stall_at, done)
    \/ Destroy
    \/ Watchdog
    \/ \E acked \in BOOLEAN : WatchdogInterval(acked)
    \/ \E nodelay_ok \in BOOLEAN : NewConnection(nodelay_ok)
    \/ ConnectError
    \/ \E n \in Nodes : NodeReceive("D1", n)
    \/ NodeDisconnect("D1", "b")

SpecLifecycle == Init /\ [][NextLifecycle]_vars

\* The end of a dataflow that handed out shared memory: D1 of the coordinator,
\* p preparing and sending, a and b subscribing and receiving, every node
\* stopping, the tokens being dropped
NextTeardown ==
    \/ Spawn("D1", 1, NoNode)
    \/ \E n \in {"a", "b"} : Subscribe("D1", n)
    \/ \E len \in {0, 1} : PrepareOutputMessage("D1", "p", "x", len, TRUE, TRUE)
    \/ \E id \in DOMAIN prepared_messages :
          \E slow \in SUBSET FullReceivers("D1") : SendOutMessage("D1", "p", id, slow)
    \/ \E token \in DOMAIN sent_out_shared_memory : Drop(token)
    \/ \E n \in Nodes :
          \E slow \in SUBSET FullReceivers("D1") : Stopped("D1", n, slow)
    \/ \E n \in {"a", "b"} : NodeReceive("D1", n)

SpecTeardown == InitCoordinated /\ [][NextTeardown]_vars

\* The timer ticks of a dataflow that has messages in flight: D1 of the
\* coordinator, p preparing and sending, a and b subscribing, b receiving or
\* dropping its queue, the ticks, and the nodes stopping until D1 is gone
NextTicks ==
    \/ Spawn("D1", 1, NoNode)
    \/ \E n \in {"a", "b"} : Subscribe("D1", n)
    \/ PrepareOutputMessage("D1", "p", "x", 1, TRUE, TRUE)
    \/ \E id \in DOMAIN prepared_messages :
          \E slow \in SUBSET FullReceivers("D1") : SendOutMessage("D1", "p", id, slow)
    \/ \E slow \in SUBSET FullReceivers("D1") : Timer("D1", Interval, slow)
    \/ \E n \in Nodes : Stopped("D1", n, {})
    \/ NodeReceive("D1", "b")
    \/ NodeDisconnect("D1", "b")

SpecTicks == InitCoordinated /\ [][NextTicks]_vars

\* -------------------------------------------------------------- properties

\* the Input events with a segment that the last handler enqueued
SegmentInputs(handled) ==
    {i \in 1..Len(handled.sent) :
        /\ handled.sent[i][2].type = "Input"
        /\ handled.sent[i][2].seg # NoSeg}

\* the entry of `token` was made for one enqueued Input that carries the token
\* and the segment of the entry
MintedForOneInput(table, handled, token) ==
    Cardinality({i \in SegmentInputs(handled) :
                    /\ handled.sent[i][2].token = token
                    /\ handled.sent[i][2].seg = table[token]}) = 1

TokenTableInv ==
    \A token \in DOMAIN sent_out_shared_memory :
        /\ token < next_token
        /\ token \notin dropped
        /\ token \in DOMAIN delivered
        /\ delivered[token].seg = sent_out_shared_memory[token]
        /\ sent_out_shared_memory[token] # NoSeg

TokenTableStep ==
    /\ \A token \in DOMAIN sent_out_shared_memory' \ DOMAIN sent_out_shared_memory :
          /\ token >= next_token
          /\ MintedForOneInput(sent_out_shared_memory', last', token)
    /\ \A i \in SegmentInputs(last') :
          /\ last'.sent[i][2].token \in DOMAIN sent_out_shared_memory'
          /\ last'.sent[i][2].token \notin DOMAIN sent_out_shared_memory
    /\ \A token \in DOMAIN sent_out_shared_memory :
          IF token \in DOMAIN sent_out_shared_memory'
          THEN sent_out_shared_memory'[token] = sent_out_shared_memory[token]
          ELSE status' = "running" => Drop(token)

\* C1: while the loop runs, every token of sent_out_shared_memory was minted for
\* exactly one Input event that was enqueued with the segment of the entry, and
\* every such Input has its entry; a token is never reused, and an entry
\* leaves the table only in the handler of a Drop with its token, so that a
\* token that was dropped is absent from then on.
C1_TokenTable == [](TokenTableInv) /\ [][TokenTableStep]_vars

\* two receivers took the same segment, one has dropped its token and is gone
\* from the table, the other entry is still there
C1_Witness ==
    /\ last.kind = "Drop" /\ last.error = ""
    /\ \E t \in dropped, u \in DOMAIN sent_out_shared_memory :
          /\ t # u
          /\ delivered[t].seg = delivered[u].seg
          /\ delivered[t].receiver # delivered[u].receiver

\* the tokens of the deliveries that attached the segment
SegmentTokens(seg) == {t \in DOMAIN delivered : delivered[t].seg = seg}

\* C2: while the daemon lives, a segment attached to N >= 1 deliveries is still
\* mapped after k < N of its tokens were dropped, and is unmapped once all N
\* were, whatever other events were handled in between.
C2_FreedOnLastDrop ==
    status \in {"running", "stalled"} =>
        \A seg \in 1..(next_id - 1) :
            LET N == Cardinality(SegmentTokens(seg))
                k == Cardinality(SegmentTokens(seg) \cap dropped)
            IN  N >= 1 => /\ k < N => seg \in shmem /\ rc[seg] = N - k
                          /\ k = N => seg \notin shmem

\* the second of two Drops has just unmapped a segment two receivers took
C2_Witness ==
    /\ status = "running"
    /\ last.kind = "Drop" /\ last.error = ""
    /\ \E seg \in 1..(next_id - 1) :
          /\ Cardinality(SegmentTokens(seg)) = 2
          /\ SegmentTokens(seg) \subseteq dropped
          /\ seg \notin shmem

\* the Drops of a sequence of tokens, one after the other
RECURSIVE DropAll(_, _)
DropAll(t, tokens) ==
    IF tokens = <<>> THEN t ELSE DropAll(OnDrop(t, Head(tokens)), Tail(tokens))

\* every order in which the tokens of S can be dropped
Orders(S) ==
    {order \in [1..Cardinality(S) -> S] :
        \A i, j \in 1..Cardinality(S) : i # j => order[i] # order[j]}

\* Prepare, SendOutMessage of the new handle, then the Drops of its tokens in
\* the order given, put the tables back and unmap the segment
RoundTripRestores(d, n, len, slow) ==
    LET id == next_id
        t1 == OnPrepareOutputMessage(Tables, "x", len, TRUE)
        t2 == OnSendOutMessage(t1, d, n, id, slow)
        tokens == DOMAIN t2.sent_out_shared_memory \ DOMAIN sent_out_shared_memory
    IN  /\ id \in DOMAIN t1.prepared_messages
        /\ len > 0 => id \in t1.shmem
        /\ tokens = {} => id \notin t2.shmem
        /\ \A order \in Orders(tokens) :
              LET t3 == DropAll(t2, order)
              IN  /\ t3.prepared_messages = prepared_messages
                  /\ t3.sent_out_shared_memory = sent_out_shared_memory
                  /\ t3.shmem = shmem
                  /\ t3.rc = rc
                  /\ id \notin t3.shmem

\* nothing is left of a handle that was sent out and whose tokens were dropped
SettledHandle(id) ==
    (id \notin DOMAIN prepared_messages /\ SegmentTokens(id) \subseteq dropped) =>
        /\ id \notin shmem
        /\ id \notin DOMAIN rc
        /\ \A t \in DOMAIN sent_out_shared_memory : sent_out_shared_memory[t] # id

\* C3: from every state of the running loop, PrepareOutputMessage followed by
\* SendOutMessage of the returned handle and one Drop per delivered token (in
\* any order) leaves prepared_messages and sent_out_shared_memory as they were
\* before and the segment unmapped, at the end of the send when nothing was
\* delivered; and in every run nothing is left of a handle so settled.
C3_RoundTrip ==
    status = "running" =>
        /\ \A d \in DOMAIN running, n \in Nodes, len \in {0, 1} :
              \A slow \in SUBSET FullReceivers(d) : RoundTripRestores(d, n, len, slow)
        /\ \A id \in 1..(next_id - 1) : SettledHandle(id)

\* a message with a segment went to both receivers, both dropped their token,
\* and the tables are empty again
C3_Witness ==
    /\ status = "running"
    /\ last.kind = "Drop" /\ last.error = ""
    /\ Cardinality(SegmentTokens(1)) = 2 /\ SegmentTokens(1) \subseteq dropped
    /\ prepared_messages = EmptyFn /\ sent_out_shared_memory = EmptyFn
    /\ shmem = {}

\* C4: at the end of every handler, a node that has a subscribe channel in a
\* running dataflow has an open_inputs entry, and the entry is not empty.
C4_SubscribedHasOpenInputs ==
    \A d \in DOMAIN running :
        \A n \in DOMAIN running[d].subscribe_channels :
            /\ n \in DOMAIN running[d].open_inputs
            /\ running[d].open_inputs[n] # {}

\* C5: a node whose process termination is reported by SpawnedNodeResult is
\* no longer in the running_nodes of its dataflow once the report is handled.
C5_ReportedNodeLeaves ==
    [][\A d \in DOMAIN running, n \in Nodes, ok \in BOOLEAN :
          (SpawnedNodeResult(d, n, ok) /\ status' = "running" /\ d \in DOMAIN running')
              => n \notin running'[d].running_nodes]_vars

\* C6: a SendOutMessage whose id is not a key of prepared_messages is answered
\* with an error on its reply channel, and the loop goes on.
C6_UnknownIdAnswered ==
    [][\A d \in DataflowIds, n \in Nodes, id \in 1..next_id :
          \A slow \in SUBSET FullReceivers(d) :
              (id \notin DOMAIN prepared_messages /\ SendOutMessage(d, n, id, slow))
                  => (last'.reply = "Err" /\ status' = "running")]_vars

\* C7: a Subscribe, a SendOutMessage of a prepared message or a Stopped that
\* names a dataflow which is not in running is answered with an error, and the
\* loop goes on.
C7_UnknownDataflowSurvives ==
    [][\A d \in DataflowIds \ DOMAIN running, n \in Nodes :
          (\/ Subscribe(d, n)
           \/ Stopped(d, n, {})
           \/ \E id \in DOMAIN prepared_messages : SendOutMessage(d, n, id, {}))
              => (last'.reply = "Err" /\ status' = "running")]_vars

\* C8: a Spawn for an id that is already a key of running replies
\* SpawnResult(Err) and changes nothing: no node is spawned, no timer started,
\* the RunningDataflow of the id and every other table stay as they are, and
\* the loop goes on.
C8_DuplicateSpawnRejected ==
    [][\A d \in DOMAIN running, k \in 1..Len(Descriptors), f \in {"b", NoNode} :
          Spawn(d, k, f) =>
              /\ last'.kind = "Spawn" /\ last'.reply = "Err"
              /\ last'.error = "there is already a running dataflow"
              /\ status' = "running"
              /\ running' = running
              /\ spawned' = spawned
              /\ timer_tasks' = timer_tasks
              /\ UNCHANGED <<prepared_messages, sent_out_shared_memory,
                             exit_when_done, coordinator_addr, external, shmem, rc,
                             next_id, next_token, delivered, dropped>>]_vars

\* a second Spawn of D1 was rejected while D1 runs with a subscriber
C8_Witness ==
    /\ status = "running"
    /\ last.kind = "Spawn"
    /\ last.error = "there is already a running dataflow"
    /\ "D1" \in DOMAIN running
    /\ running["D1"].subscribe_channels # EmptyFn

\* what one step does to the prepared messages
PreparedStep ==
    /\ \A id \in DOMAIN prepared_messages :
          IF id \in DOMAIN prepared_messages'
          THEN prepared_messages'[id] = prepared_messages[id]
          ELSE status' = "running" =>
                  \E d \in DataflowIds, n \in Nodes :
                      \E slow \in SUBSET FullReceivers(d) : SendOutMessage(d, n, id, slow)
    /\ last'.kind = "PrepareOutputMessage" =>
          IF last'.reply = "PreparedMessage"
          THEN DOMAIN prepared_messages' = DOMAIN prepared_messages \cup {next_id}
          ELSE status' = "running" => prepared_messages' = prepared_messages

FanOutSkipsTimedOut(d, n, id, slow) ==
    LET message == prepared_messages[id]
        channels == running[d].subscribe_channels
        receivers == {r \in GetOrEmpty(running[d].mappings, <<n, message.output_id>>) :
                        r[1] \in DOMAIN channels}
        timed_out == {r \in receivers : r[1] \in slow \cap FullReceivers(d)}
        served == {r \in receivers \ timed_out : ~channels[r[1]].closed}
        Got(r) == {i \in 1..Len(last'.sent) :
                     /\ last'.sent[i][1] = r[1]
                     /\ last'.sent[i][2].type = "Input"
                     /\ last'.sent[i][2].id = r[2]}
        new == DOMAIN sent_out_shared_memory' \ DOMAIN sent_out_shared_memory
        TokensOf(r) == {t \in new : /\ delivered'[t].receiver = r[1]
                                    /\ delivered'[t].input = r[2]
                                    /\ sent_out_shared_memory'[t] = message.data}
    IN  timed_out # {} =>
          /\ \A r \in timed_out :
                /\ Got(r) = {}
                /\ \A t \in new : delivered'[t].receiver # r[1]
                /\ r[1] \in DOMAIN running'[d].subscribe_channels
                /\ running'[d].subscribe_channels[r[1]] = channels[r[1]]
          /\ \A r \in served :
                /\ Cardinality(Got(r)) = 1
                /\ message.data # NoSeg => Cardinality(TokensOf(r)) = 1
          /\ message.data # NoSeg =>
                /\ Cardinality(new) = Cardinality(served)
                /\ IF served = {} THEN message.data \notin shmem'
                   ELSE /\ message.data \in shmem'
                        /\ rc'[message.data] = Cardinality(served)

\* C10: in a SendOutMessage fan-out, a receiver whose enqueue times out gets no
\* Input and no token in sent_out_shared_memory and keeps its subscribe
\* channel as it was; every other receiver with an open channel gets its Input
\* and, for a message with a segment, its own token; the segment is then held
\* by the tokens of the served receivers alone (and unmapped at once when
\* there is none).
C10_TimeoutSkipsReceiver ==
    [][\A d \in DOMAIN running, n \in Nodes, id \in DOMAIN prepared_messages :
          \A slow \in SUBSET FullReceivers(d) :
              SendOutMessage(d, n, id, slow) => FanOutSkipsTimedOut(d, n, id, slow)]_vars

\* a message with a segment reached a and not b, whose queue is full; b keeps
\* its channel, and the one token recorded is a's
C10_Witness ==
    /\ status = "running"
    /\ last.kind = "SendOutMessage"
    /\ Len(last.sent) = 1 /\ last.sent[1][1] = "a" /\ last.sent[1][2].seg # NoSeg
    /\ "D1" \in DOMAIN running
    /\ "b" \in DOMAIN running["D1"].subscribe_channels
    /\ Len(running["D1"].subscribe_channels["b"].q) = ChanCap
    /\ Cardinality(DOMAIN sent_out_shared_memory) = 1
    /\ \A t \in DOMAIN sent_out_shared_memory : delivered[t].receiver = "a"

\* the receivers of the fan-out whose channel is closed, the ones that are
\* served, and what the handler did for each
FanOutDropsClosed(d, n, id, slow) ==
    LET message == prepared_messages[id]
        channels == running[d].subscribe_channels
        receivers == {r \in GetOrEmpty(running[d].mappings, <<n, message.output_id>>) :
                        r[1] \in DOMAIN channels}
        closed == {r \in receivers : channels[r[1]].closed}
        timed_out == {r \in receivers : r[1] \in slow \cap FullReceivers(d)}
        served == receivers \ (closed \cup timed_out)
        Got(r) == {i \in 1..Len(last'.sent) :
                     /\ last'.sent[i][1] = r[1]
                     /\ last'.sent[i][2].type = "Input"
                     /\ last'.sent[i][2].id = r[2]}
        new == DOMAIN sent_out_shared_memory' \ DOMAIN sent_out_shared_memory
        holders == {t \in DOMAIN sent_out_shared_memory' :
                      sent_out_shared_memory'[t] = message.data}
    IN  closed # {} =>
          /\ \A r \in closed :
                /\ r[1] \notin DOMAIN running'[d].subscribe_channels
                /\ Got(r) = {}
                /\ \A t \in new : delivered'[t].receiver # r[1]
          /\ \A r \in served :
                /\ Cardinality(Got(r)) = 1
                /\ r[1] \in DOMAIN running'[d].subscribe_channels
          /\ message.data # NoSeg =>
                /\ holders \subseteq new
                /\ {<<delivered'[t].receiver, delivered'[t].input>> : t \in holders}
                      = served
                /\ Cardinality(holders) = Cardinality(served)
                /\ IF served = {} THEN message.data \notin shmem'
                   ELSE message.data \in shmem' /\ rc'[message.data] = Cardinality(served)

\* C11: in a SendOutMessage fan-out, a receiver whose channel is found closed
\* is gone from subscribe_channels at the end of the handler, gets no Input
\* and no token; the receivers that are served get their Input, keep their
\* channel, and their tokens are the only references to the segment.
C11_ClosedReceiverRemoved ==
    [][\A d \in DOMAIN running, n \in Nodes, id \in DOMAIN prepared_messages :
          \A slow \in SUBSET FullReceivers(d) :
              SendOutMessage(d, n, id, slow) => FanOutDropsClosed(d, n, id, slow)]_vars

\* a message with a segment reached a while b's channel was found closed and
\* removed; the one token recorded is a's
C11_Witness ==
    /\ status = "running"
    /\ last.kind = "SendOutMessage"
    /\ last.closed = <<"b">>
    /\ Len(last.sent) = 1 /\ last.sent[1][1] = "a" /\ last.sent[1][2].seg # NoSeg
    /\ "b" \notin DOMAIN running["D1"].subscribe_channels
    /\ "a" \in DOMAIN running["D1"].subscribe_channels
    /\ Cardinality(DOMAIN sent_out_shared_memory) = 1
    /\ \A t \in DOMAIN sent_out_shared_memory : delivered[t].receiver = "a"

\* C12: once a Stopped of node n of a running dataflow is handled, every input
\* (r, i) mapped from an output of n is no longer open at r, and a receiver
\* left without open inputs has no subscribe channel, whether or not r had
\* subscribed when n stopped.
C12_StoppedClosesInputs ==
    [][\A d \in DOMAIN running, n \in Nodes :
          \A slow \in SUBSET FullReceivers(d) :
              (Stopped(d, n, slow) /\ status' = "running" /\ d \in DOMAIN running') =>
                  \A r \in DownstreamNodes(running[d], n) :
                      LET open == GetOrEmpty(running'[d].open_inputs, r[1])
                      IN  /\ r[2] \notin open
                          /\ open = {} => r[1] \notin DOMAIN running'[d].subscribe_channels]_vars

\* a running dataflow always has a node that has not stopped
SomeNodeRunning == \A d \in DOMAIN running : running[d].running_nodes # {}

\* running_nodes of a dataflow shrinks only by the Stopped of one of its nodes;
\* the Stopped of the last node removes the dataflow and reports it, and
\* nothing else reports a finished dataflow
LastStoppedFinishes ==
    /\ \A d \in DOMAIN running :
          \/ status' # "running"
          \/ /\ d \in DOMAIN running'
             /\ running'[d].running_nodes = running[d].running_nodes
          \/ \E n \in running[d].running_nodes :
                /\ \E slow \in SUBSET FullReceivers(d) : Stopped(d, n, slow)
                /\ IF running[d].running_nodes = {n}
                   THEN /\ d \notin DOMAIN running'
                        /\ last'.coordinator =
                              IF coordinator_addr THEN "AllNodesFinished" ELSE ""
                   ELSE /\ d \in DOMAIN running'
                        /\ running'[d].running_nodes = running[d].running_nodes \ {n}
                        /\ last'.coordinator = ""
    /\ last'.coordinator = "AllNodesFinished" =>
          /\ coordinator_addr
          /\ \E d \in DOMAIN running \ DOMAIN running' :
                \E n \in Nodes :
                    /\ running[d].running_nodes = {n}
                    /\ \E slow \in SUBSET FullReceivers(d) : Stopped(d, n, slow)

\* C13: once Stopped has been handled for every node of a spawned dataflow, the
\* dataflow is no longer a key of running, and with a coordinator address
\* AllNodesFinished is sent exactly once, by the handler of the last Stopped.
C13_AllStoppedRemoves == [](SomeNodeRunning) /\ [][LastStoppedFinishes]_vars

\* the last node of D1 has stopped: D1 is gone and the coordinator was told
C13_Witness ==
    /\ status = "running"
    /\ coordinator_addr
    /\ last.kind = "Stopped"
    /\ last.reply = "Ok"
    /\ last.coordinator = "AllNodesFinished"
    /\ "D1" \notin DOMAIN running
    /\ spawned # {}

\* C14: a spawned dataflow stays a key of running until its running_nodes is
\* empty, a StopDataflow for its id, or Destroy; in particular, once a
\* StopDataflow of a running dataflow is handled the dataflow is no longer in
\* running (and so none of its Timer ticks is fanned out).
C14_StopDataflowRemoves ==
    [][\A d \in DOMAIN running :
          (StopDataflow(d, NoNode, {}) /\ status' = "running") =>
              d \notin DOMAIN running']_vars

\* a completed StopDataflow of d enqueued exactly one Stop on every channel of d
\* whose receive half is alive, and left d without channels
StopDrains(d) ==
    LET channels == running[d].subscribe_channels
        alive == {n \in DOMAIN channels : ~channels[n].closed}
    IN  /\ last'.reply = "Ok"
        /\ d \in DOMAIN running'
        /\ running'[d].subscribe_channels = EmptyFn
        /\ Len(last'.sent) = Cardinality(alive)
        /\ \A n \in alive :
              Cardinality({i \in 1..Len(last'.sent) :
                              last'.sent[i] = <<n, StopEvent>>}) = 1

\* a channel enters subscribe_channels only by the Subscribe of its node
ChannelsBySubscribe ==
    \A d \in DOMAIN running' :
        \A n \in DOMAIN running'[d].subscribe_channels :
            (d \in DOMAIN running /\ n \in DOMAIN running[d].subscribe_channels)
                \/ Subscribe(d, n)

\* a fan-out delivers only to nodes that hold a channel when it is handled
FanOutToSubscribed ==
    \A d \in DOMAIN running :
        \A slow \in SUBSET FullReceivers(d) :
            (/\ last'.kind \in {"Timer", "SendOutMessage"}
             /\ \/ Timer(d, Interval, slow)
                \/ \E n \in Nodes, id \in DOMAIN prepared_messages :
                       SendOutMessage(d, n, id, slow))
              => \A i \in 1..Len(last'.sent) :
                    last'.sent[i][1] \in DOMAIN running[d].subscribe_channels

\* C15: StopDataflow of a running dataflow sends one Stop to every channel of
\* its subscribe_channels and leaves subscribe_channels empty; a SendOutMessage
\* or Timer fan-out handled afterwards delivers no Input to a node that has not
\* subscribed again since.
C15_StopClearsChannels ==
    [][/\ \A d \in DOMAIN running : StopDataflow(d, NoNode, {}) => StopDrains(d)
       /\ ChannelsBySubscribe
       /\ FanOutToSubscribed]_vars

\* a and b were subscribed when D1 was stopped: each got its Stop
C15_Witness ==
    /\ status = "running"
    /\ last.kind = "StopDataflow"
    /\ last.reply = "Ok"
    /\ last.sent = <<<<"a", StopEvent>>, <<"b", StopEvent>>>>
    /\ "D1" \in DOMAIN running
    /\ running["D1"].subscribe_channels = EmptyFn

\* C16: a segment whose token is never dropped is held only until its dataflow
\* ends: once the dataflow is removed from running, sent_out_shared_memory has
\* no token minted for a delivery in that dataflow.
C16_TokensEndWithDataflow ==
    status = "running" =>
        \A token \in DOMAIN sent_out_shared_memory :
            delivered[token].dataflow \in DOMAIN running

\* what one SendOutMessage of node n with prepared message id enqueued, against
\* the receivers mapped from (n, output)
FanOutWithinMapping(d, n, id) ==
    LET key == <<n, prepared_messages[id].output_id>>
        mapped == IF key \in DOMAIN running[d].mappings
                  THEN running[d].mappings[key] ELSE {}
        sent == last'.sent
    IN  /\ last'.reply = "Ok"
        /\ \A i \in 1..Len(sent) :
              /\ sent[i][2].type = "Input"
              /\ <<sent[i][1], sent[i][2].id>> \in mapped
        /\ \A r \in mapped :
              Cardinality({i \in 1..Len(sent) :
                              <<sent[i][1], sent[i][2].id>> = r}) <= 1
        /\ key \notin DOMAIN running[d].mappings => sent = <<>>
        /\ \A r \in DOMAIN running'[d].subscribe_channels :
              (\A m \in mapped : m[1] # r) =>
                  running'[d].subscribe_channels[r] = running[d].subscribe_channels[r]

\* C17: one SendOutMessage of node p for output o enqueues at most one Input
\* per InputId of mappings[(p, o)], none for an InputId outside that set, and
\* none when (p, o) has no mapping entry, the reply still being Ok.
C17_FanOutWithinMapping ==
    [][\A d \in DOMAIN running, n \in Nodes, id \in DOMAIN prepared_messages :
          \A slow \in SUBSET FullReceivers(d) :
              (last'.kind = "SendOutMessage" /\ SendOutMessage(d, n, id, slow))
                  => FanOutWithinMapping(d, n, id)]_vars

\* p's message reached both mapped inputs, once each
C17_Witness ==
    /\ status = "running"
    /\ last.kind = "SendOutMessage"
    /\ last.reply = "Ok"
    /\ Len(last.sent) = 2
    /\ {<<last.sent[i][1], last.sent[i][2].id>> : i \in 1..2} =
          {<<"a", "in">>, <<"b", "in">>}

\* C18: a subscriber's channel keeps the order of the enqueues: an
\* InputClosed{i} caused by the upstream's Stopped is not received before an
\* Input{i} enqueued earlier, and no Input{i} of that upstream is enqueued to
\* the receiver after its InputClosed{i}; so no SendOutMessage enqueues an
\* Input{i} on a channel whose queue holds the InputClosed{i}.
C18_NoInputAfterClosed ==
    [][\A d \in DOMAIN running, n \in Nodes, id \in DOMAIN prepared_messages :
          \A slow \in SUBSET FullReceivers(d) :
              (last'.kind = "SendOutMessage" /\ SendOutMessage(d, n, id, slow)) =>
                  \A k \in 1..Len(last'.sent) :
                      LET r == last'.sent[k][1]
                          q == running[d].subscribe_channels[r].q
                      IN  \A j \in 1..Len(q) :
                              q[j] # Queued(InputClosedEvent(last'.sent[k][2].id))]_vars

\* C19: when Stopped from a node is handled, the Ok reply is sent before any
\* InputClosed is enqueued on a downstream channel and before the node is
\* removed from running_nodes; so the node holds its reply also when the
\* handler fails or gets stuck after it.
C19_ReplyFirst ==
    last.kind = "Stopped" =>
        /\ last.reply = "Ok"
        /\ last.effects[1] = "reply"
        /\ \A j \in 2..Len(last.effects) : last.effects[j] \in {"InputClosed", "remove"}
        /\ Cardinality({j \in 1..Len(last.effects) : last.effects[j] = "InputClosed"})
              = Len(last.sent)
        /\ \A j \in 1..Len(last.effects) :
              last.effects[j] = "remove" => j = Len(last.effects) /\ status = "running"

\* p stopped with a and b subscribed: the reply, two InputClosed, the removal
C19_Witness ==
    /\ status = "running"
    /\ last.kind = "Stopped"
    /\ last.effects = <<"reply", "InputClosed", "InputClosed", "remove">>
    /\ {last.sent[i][1] : i \in 1..Len(last.sent)} = {"a", "b"}
    /\ "D1" \in DOMAIN running
    /\ "p" \notin running["D1"].running_nodes

\* the standalone loop exits exactly in the report that empties exit_when_done;
\* an error report fails it; a Stopped that completes leaves it running
StandaloneExit ==
    exit_when_done.is_some =>
        /\ (status = "running" /\ status' = "exited") =>
              \E d \in DataflowIds, n \in Nodes :
                  /\ SpawnedNodeResult(d, n, TRUE)
                  /\ exit_when_done.set = {<<d, n>>}
                  /\ exit_when_done'.set = {}
        /\ \A d \in DataflowIds, n \in Nodes :
              /\ (last'.kind = "SpawnedNodeResult" /\ SpawnedNodeResult(d, n, TRUE)) =>
                    /\ exit_when_done'.set = exit_when_done.set \ {<<d, n>>}
                    /\ status' = IF exit_when_done'.set = {} THEN "exited" ELSE "running"
              /\ (last'.kind = "SpawnedNodeResult" /\ SpawnedNodeResult(d, n, FALSE)) =>
                    /\ status' = "failed"
                    /\ last'.error = "error in node"
              /\ (/\ last'.kind = "Stopped"
                  /\ d \in DOMAIN running
                  /\ Stopped(d, n, {})) =>
                    /\ status' = "running"
                    /\ running[d].running_nodes = {n} =>
                          d \notin DOMAIN running' /\ exit_when_done' = exit_when_done

\* C20: in standalone mode the loop returns Exit in the handler of the
\* SpawnedNodeResult that empties exit_when_done and not earlier: Stopped of
\* every node, which removes the dataflow, does not end the loop while a
\* report is outstanding, and a report carrying an error ends the loop with
\* failure.
C20_ExitWhenDone == [][StandaloneExit]_vars

\* the standalone daemon has exited on the last report
C20_Witness ==
    /\ ~coordinator_addr
    /\ status = "exited"
    /\ last.kind = "SpawnedNodeResult"
    /\ exit_when_done.is_some
    /\ exit_when_done.set = {}

\* the state of the engine, without the record of the last handler
EngineState ==
    <<status, prepared_messages, sent_out_shared_memory, running, exit_when_done,
      coordinator_addr, shmem, rc, next_id, next_token, spawned, timer_tasks>>

\* a tick with a failed exchange ends the loop with an error; any other tick
\* leaves the engine as it was; a loop that has ended handles nothing
WatchdogStep ==
    /\ \A acked \in BOOLEAN :
          (last'.kind = "WatchdogInterval" /\ WatchdogInterval(acked)) =>
              IF coordinator_addr /\ ~acked
              THEN /\ status' = "failed"
                   /\ last'.error = "lost connection to coordinator"
                   /\ last'.coordinator = ""
              ELSE /\ status' = "running"
                   /\ EngineState' = EngineState
                   /\ last'.error = ""
    /\ status # "running" => vars' = vars

\* C21: on a WatchdogInterval tick, a failed exchange with a configured
\* coordinator terminates the event loop with an error and no further event is
\* handled; a successful exchange, or no coordinator address, changes no engine
\* state and the loop continues.
C21_WatchdogFatal == [][WatchdogStep]_vars

\* the loop has ended on a lost coordinator, leaving a dataflow behind
C21_Witness ==
    /\ coordinator_addr
    /\ status = "failed"
    /\ last.kind = "WatchdogInterval"
    /\ last.error = "lost connection to coordinator"
    /\ spawned # {}

\* what a Timer tick of d may change
TimerFrame(d) ==
    /\ status' = "running"
    /\ prepared_messages' = prepared_messages
    /\ sent_out_shared_memory' = sent_out_shared_memory
    /\ shmem' = shmem
    /\ rc' = rc
    /\ DOMAIN running' = DOMAIN running
    /\ \A other \in DOMAIN running \ {d} : running'[other] = running[other]
    /\ IF d \notin DOMAIN running
       THEN running' = running /\ last'.sent = <<>>
       ELSE IF Interval \notin DOMAIN running[d].timers
       THEN running' = running /\ last'.sent = <<>>
       ELSE
         LET before == running[d]
             after == running'[d]
             subscribers == before.timers[Interval]
             observed == {r \in DOMAIN before.subscribe_channels :
                            /\ before.subscribe_channels[r].closed
                            /\ \E m \in subscribers : m[1] = r}
             sent == last'.sent
         IN  /\ after.running_nodes = before.running_nodes
             /\ after.open_inputs = before.open_inputs
             /\ after.mappings = before.mappings
             /\ after.timers = before.timers
             /\ after.timer_handles = before.timer_handles
             /\ DOMAIN after.subscribe_channels =
                    (DOMAIN before.subscribe_channels) \ observed
             /\ \A r \in DOMAIN after.subscribe_channels :
                    (\A m \in subscribers : m[1] # r) =>
                        after.subscribe_channels[r] = before.subscribe_channels[r]
             /\ \A i \in 1..Len(sent) :
                    /\ sent[i][2].type = "Input"
                    /\ sent[i][2].seg = NoSeg
                    /\ sent[i][2].token = 0
                    /\ <<sent[i][1], sent[i][2].id>> \in subscribers
             /\ \A m \in subscribers :
                    Cardinality({i \in 1..Len(sent) :
                                    <<sent[i][1], sent[i][2].id>> = m}) <= 1

\* C22: a Timer event never changes prepared_messages, sent_out_shared_memory,
\* running_nodes, open_inputs, mappings or timers; for a dataflow that is not
\* running or has no entry for the interval it changes nothing; otherwise it
\* only removes from subscribe_channels the receivers found closed, and
\* delivers at most one Input without data per InputId of timers[interval].
C22_TimerFrame ==
    [][\A d \in DataflowIds :
          \A slow \in SUBSET FullReceivers(d) :
              (last'.kind = "Timer" /\ Timer(d, Interval, slow)) => TimerFrame(d)]_vars

\* a tick found b's channel closed and removed it, with a message prepared and
\* a token outstanding
C22_Witness ==
    /\ status = "running"
    /\ last.kind = "Timer"
    /\ last.closed = <<"b">>
    /\ "D1" \in DOMAIN running
    /\ "b" \notin DOMAIN running["D1"].subscribe_channels
    /\ sent_out_shared_memory # EmptyFn

\* what the first command leaves of the dataflow when the spawner fails for b:
\* a and b are installed, p is not
PartialMain ==
    [subscribe_channels |-> EmptyFn,
     mappings |-> (<<"p", "x">> :> {<<"a", "in">>, <<"b", "in">>}),
     timers |-> (Interval :> {<<"b", "tick">>}),
     open_inputs |-> ("a" :> {"in"}) @@ ("b" :> {"in", "tick"}),
     running_nodes |-> {"a", "b"},
     timer_handles |-> {}]

\* what the second command leaves when b's input names an operator: a is
\* installed, b up to the opening of that input
PartialOp ==
    [subscribe_channels |-> EmptyFn,
     mappings |-> EmptyFn,
     timers |-> (Interval :> {<<"a", "tick">>}),
     open_inputs |-> ("a" :> {"tick"}) @@ ("b" :> {"in"}),
     running_nodes |-> {"a", "b"},
     timer_handles |-> {}]

\* a Spawn of the coordinator that fails part-way, and a Spawn that meets the
\* entry such a failure left
PartialSpawnStep ==
    coordinator_addr =>
        \A k \in 1..Len(Descriptors), f \in {"b", NoNode} :
            (last'.kind = "Spawn" /\ Spawn("D1", k, f)) =>
                IF "D1" \notin DOMAIN running
                THEN (k = 2 \/ f = "b") =>
                        /\ status' = "running"
                        /\ last'.reply = "Err"
                        /\ last'.error = IF k = 2 THEN "operators are not supported"
                                                  ELSE "failed to spawn node"
                        /\ DOMAIN running' = {"D1"}
                        /\ running'["D1"] = IF k = 2 THEN PartialOp ELSE PartialMain
                        /\ timer_tasks' = timer_tasks
                        /\ spawned' = spawned \cup {<<"D1", "a">>}
                ELSE running["D1"].timer_handles = {} =>
                        /\ status' = "running"
                        /\ last'.reply = "Err"
                        /\ last'.error = "there is already a running dataflow"
                        /\ running' = running
                        /\ timer_tasks' = timer_tasks
                        /\ spawned' = spawned

\* C23: when a Spawn fails part-way (the spawner fails for a node, or an input
\* names an operator) the reply is SpawnResult(Err), the id stays in running
\* with what was installed up to the failure, no timer task is started, and a
\* later Spawn of the id is rejected as a duplicate while the entry is there.
C23_PartialSpawnStays == [][PartialSpawnStep]_vars

\* a Spawn of D1 was rejected because of the entry a failed Spawn left
C23_Witness ==
    /\ status = "running"
    /\ last.kind = "Spawn"
    /\ last.error = "there is already a running dataflow"
    /\ "D1" \in DOMAIN running
    /\ running["D1"] = PartialMain
    /\ timer_tasks = {}

\* C24: a subscriber that stops draining its queue cannot stall the event
\* loop: every handler that sends to subscriber channels (SendOutMessage,
\* Timer, the InputClosed of Stopped, the Stop of StopDataflow) completes also
\* when a receiver's queue is full and never read.
C24_HandlersComplete ==
    [][last'.kind \in {"SendOutMessage", "Timer", "Stopped", "StopDataflow"} =>
          status' # "stalled"]_vars

\* C25: a prepared message is sent out only on behalf of the dataflow and node
\* that prepared it; a SendOutMessage of another node quoting the handle
\* delivers nothing and does not consume the entry. Every handle of this
\* scenario is prepared by p of D1, so a SendOutMessage of a in the running D1
\* is such a request.
C25_OnlyPreparerSends ==
    [][\A id \in DOMAIN prepared_messages :
          \A slow \in SUBSET FullReceivers("D1") :
              (/\ "D1" \in DOMAIN running
               /\ last'.kind = "SendOutMessage"
               /\ SendOutMessage("D1", "a", id, slow)) =>
                  /\ last'.sent = <<>>
                  /\ id \in DOMAIN prepared_messages'
                  /\ prepared_messages'[id] = prepared_messages[id]]_vars

====
